---------------------------- MODULE Spec2Model ----------------------------
(***************************************************************************)
(* The crossword constraint solver of Optimization/crossword/generate.py   *)
(* (class CrosswordCreator): node consistency, AC-3 and backtracking       *)
(* search over a crossword built from a grid structure and a word list.    *)
(*                                                                         *)
(* Words are sequences of letters.  Python indices are 0-based, sequences  *)
(* here are 1-based: the overlap indices keep the code's 0-based values    *)
(* and a character is read as word[i + 1].                                 *)
(*                                                                         *)
(* Python iterates a set in an order the program does not control; every   *)
(* such iteration is modelled by an arbitrary ordering of the set.         *)
(*                                                                         *)
(* Further down: the tic-tac-toe player of Search/tictactoe/abprunettt.py  *)
(* (minimax with alpha-beta pruning, GameSpec) and transition_model of     *)
(* Uncertainty/pagerank/pagerank.py (RankSpec, in exact fractions).        *)
(***************************************************************************)
EXTENDS Integers, Sequences, FiniteSets, TLC

(***************************************************************************)
(* Iteration over a set.                                                   *)
(***************************************************************************)
RECURSIVE Orderings(_)
\* every order in which the elements of a set can be iterated
Orderings(S) ==
    IF S = {}
    THEN {<<>>}
    ELSE UNION {{<<x>> \o s : s \in Orderings(S \ {x})} : x \in S}

(***************************************************************************)
(* The grid structure (module crossword: Variable and Crossword).          *)
(***************************************************************************)
ACROSS == "across"
DOWN == "down"

RECURSIVE RunLength(_, _, _, _)
\* number of consecutive fillable cells from (i, j) on, in a direction
RunLength(structure, i, j, direction) ==
    IF <<i, j>> \notin structure
    THEN 0
    ELSE 1 + (IF direction = DOWN
              THEN RunLength(structure, i + 1, j, direction)
              ELSE RunLength(structure, i, j + 1, direction))

\* a cell starts a run when the cell before it is not fillable
StartsRun(structure, i, j, direction) ==
    /\ <<i, j>> \in structure
    /\ IF direction = DOWN
       THEN <<i - 1, j>> \notin structure
       ELSE <<i, j - 1>> \notin structure

\* the slots: maximal runs of at least two fillable cells
Variables(structure) ==
    {[i |-> c[1], j |-> c[2], direction |-> d,
      length |-> RunLength(structure, c[1], c[2], d)] :
        <<c, d>> \in {p \in structure \X {ACROSS, DOWN} :
                        /\ StartsRun(structure, p[1][1], p[1][2], p[2])
                        /\ RunLength(structure, p[1][1], p[1][2], p[2]) >= 2}}

(***************************************************************************)
(* The inputs: grid structures and word lists.                             *)
(***************************************************************************)
\* largest word list
MaxWords == 4

\* a grid structure is the set of its fillable cells <<row, column>>
SingleSlot == {<<0, 0>>, <<0, 1>>}
TwoParallel == {<<0, 0>>, <<0, 1>>, <<2, 0>>, <<2, 1>>}
Corner == {<<0, 0>>, <<0, 1>>, <<0, 2>>, <<1, 0>>}
Gate == {<<0, 0>>, <<0, 1>>, <<1, 0>>, <<2, 0>>, <<2, 1>>}
Stair == {<<0, 0>>, <<0, 1>>, <<1, 1>>, <<1, 2>>}
Block == {<<0, 0>>, <<0, 1>>, <<1, 0>>, <<1, 1>>}

\* the structures solve() is run on
Structures == {SingleSlot, TwoParallel, Corner, Gate}

\* structures of two-letter slots that constraint propagation alone is also
\* run on: Stair is a chain of three slots, Block a cycle of four
ChainStructures == {Stair, Block}

\* the alphabet of the word lists solve() is run on
Letters == {"a", "b"}

\* the alphabet of the word lists of the chain structures
ChainLetters == {"a", "b", "c"}

\* the lengths of the slots of a set of structures
SlotLengths(structures) ==
    {v.length : v \in UNION {Variables(structure) : structure \in structures}}

\* the words of n letters over an alphabet
WordsOfLen(n, letters) == [1..n -> letters]

\* every word of a word list: a word as long as some slot
Vocabulary(structures, letters) ==
    UNION {WordsOfLen(n, letters) : n \in SlotLengths(structures)}

RECURSIVE SubsetsUpTo(_, _)
\* the subsets of S with at most k elements
SubsetsUpTo(S, k) ==
    IF k = 0 \/ S = {}
    THEN {{}}
    ELSE LET x == CHOOSE e \in S : TRUE
             rest == S \ {x}
         IN  SubsetsUpTo(rest, k) \cup {T \cup {x} : T \in SubsetsUpTo(rest, k - 1)}

WordLists == SubsetsUpTo(Vocabulary(Structures, Letters), MaxWords)

ChainWordLists == SubsetsUpTo(Vocabulary(ChainStructures, ChainLetters), MaxWords)

\* the largest of them: Block has four slots, which need four distinct words
FullChainWordLists == {words \in ChainWordLists : Cardinality(words) = MaxWords}

\* Variable.cells: the cells of a slot, in order
Cells(v) ==
    [k \in 1..v.length |->
        <<v.i + (IF v.direction = DOWN THEN k - 1 ELSE 0),
          v.j + (IF v.direction = ACROSS THEN k - 1 ELSE 0)>>]

\* no overlap (None in the code)
NoOverlap == <<>>

\* Crossword.overlaps[v1, v2]: the 0-based index pair of the shared cell
Overlap(v1, v2) ==
    LET common == {p \in (1..v1.length) \X (1..v2.length) :
                      Cells(v1)[p[1]] = Cells(v2)[p[2]]}
    IN  IF common = {}
        THEN NoOverlap
        ELSE LET p == CHOOSE q \in common : TRUE
             IN  <<p[1] - 1, p[2] - 1>>

\* the crossword object: its words, its variables and its overlaps
Crossword(structure, words) ==
    LET vs == Variables(structure)
    IN  [words |-> words,
         variables |-> vs,
         overlaps |-> [p \in {q \in vs \X vs : q[1] # q[2]} |-> Overlap(p[1], p[2])]]

VARIABLES
    crossword,     \* self.crossword: words, variables and overlaps
    domains,       \* self.domains
    pc,            \* position of solve()
    queue,         \* the worklist of ac3
    ac3_result,    \* what ac3 returned: "none" while it has not returned
    assignment,    \* the assignment dict shared by the calls of backtrack
    stack,         \* the active calls of backtrack, innermost first
    result         \* what solve() returned

VARIABLES
    call,          \* the last direct call of a method: arguments and return
    board,         \* tictactoe: the board of the game being played
    move,          \* tictactoe: what minimax(board) returned
    corpus,        \* pagerank: the corpus, page name -> set of linked pages
    page,          \* pagerank: the page transition_model is called with
    damping_factor,\* pagerank: the damping factor it is called with
    model          \* pagerank: what transition_model returned

solver_vars == <<crossword, domains, pc, queue, ac3_result, assignment, stack, result>>
game_vars == <<board, move>>
rank_vars == <<corpus, page, damping_factor, model>>
vars == <<solver_vars, call, game_vars, rank_vars>>

\* no direct call of a method was made
NoCall == <<>>

\* the other programs of the repository are not running
GameIdle == board = <<>> /\ move = <<>>
RankIdle == corpus = <<>> /\ page = 0 /\ damping_factor = <<>> /\ model = <<>>

\* Crossword.neighbors(var)
Neighbors(var) ==
    {v \in crossword.variables : v # var /\ crossword.overlaps[<<v, var>>] # NoOverlap}

(***************************************************************************)
(* CrosswordCreator.__init__                                               *)
(***************************************************************************)
Construct(structures, wordlists) ==
    /\ \E structure \in structures, words \in wordlists :
          /\ crossword = Crossword(structure, words)
          /\ domains = [var \in Variables(structure) |-> words]
    /\ pc = "node"
    /\ queue = <<>>
    /\ ac3_result = "none"
    /\ assignment = <<>>
    /\ stack = <<>>
    /\ result = [kind |-> "pending", value |-> <<>>]
    /\ call = NoCall
    /\ GameIdle
    /\ RankIdle

Init == Construct(Structures, WordLists)

\* constraint propagation alone, also on the chain structures
InitPropagation ==
    \/ Construct(Structures, WordLists)
    \/ Construct({Stair}, ChainWordLists)
    \/ Construct({Block}, FullChainWordLists)

(***************************************************************************)
(* enforce_node_consistency                                                *)
(***************************************************************************)
\* a comparison that also keeps the shorter words
ConsistentVarOrShorter(var, domain) == {word \in domain : Len(word) <= var.length}

\* the words of a domain that are kept for a variable
ConsistentVar(var, domain) == {word \in domain : Len(word) = var.length}

enforce_node_consistency ==
    /\ pc = "node"
    /\ domains' = [var \in DOMAIN domains |-> ConsistentVar(var, domains[var])]
    /\ pc' = "ac3"
    /\ UNCHANGED <<crossword, queue, ac3_result, assignment, stack, result>>
    /\ UNCHANGED <<call, game_vars, rank_vars>>

(***************************************************************************)
(* revise                                                                  *)
(***************************************************************************)
\* the two indices of the overlap taken the wrong way round
CharsAgreeSwapped(x_word, i, y_word, j) ==
    /\ j < Len(x_word)
    /\ i < Len(y_word)
    /\ x_word[j + 1] = y_word[i + 1]

\* x_word[i] == y_word[j]; an index out of range raises, and the bare
\* except of the code then skips the pair
CharsAgree(x_word, i, y_word, j) ==
    /\ i < Len(x_word)
    /\ j < Len(y_word)
    /\ x_word[i + 1] = y_word[j + 1]

\* the words of domain(x) that some word of domain(y) disagrees with
InconsistentXSomeDisagree(doms, x, y) ==
    LET overlaps == crossword.overlaps[<<x, y>>]
    IN  {x_word \in doms[x] :
            \E y_word \in doms[y] :
                ~CharsAgree(x_word, overlaps[1], y_word, overlaps[2])}

\* the words of domain(x) that find no corresponding word in domain(y)
InconsistentX(doms, x, y) ==
    LET overlaps == crossword.overlaps[<<x, y>>]
    IN  {x_word \in doms[x] :
            ~ \E y_word \in doms[y] :
                  CharsAgree(x_word, overlaps[1], y_word, overlaps[2])}

\* a revise that reports a revision whenever the arc has an overlap
reviseAlwaysRevised(doms, x, y) ==
    IF crossword.overlaps[<<x, y>>] # NoOverlap
    THEN [revised |-> TRUE,
          domains |-> [doms EXCEPT ![x] = doms[x] \ InconsistentX(doms, x, y)]]
    ELSE [revised |-> FALSE, domains |-> doms]

\* revise(x, y) on a domain store: the flag it returns and the store it leaves
revise(doms, x, y) ==
    IF crossword.overlaps[<<x, y>>] # NoOverlap
    THEN LET inconsistent_x == InconsistentX(doms, x, y)
         IN  [revised |-> inconsistent_x # {},
              domains |-> [doms EXCEPT ![x] = doms[x] \ inconsistent_x]]
    ELSE [revised |-> FALSE, domains |-> doms]

(***************************************************************************)
(* ac3, called with arcs=None                                              *)
(***************************************************************************)
\* the arcs (var, neighbor) of one variable, its neighbors in a given order
ArcsOf(var, neighbor_order) ==
    [k \in 1..Len(neighbor_order) |-> <<var, neighbor_order[k]>>]

RECURSIVE InitialQueue(_, _)
\* the queue built by the two nested loops over variables and neighbors
InitialQueue(var_order, neighbor_orders) ==
    IF var_order = <<>>
    THEN <<>>
    ELSE ArcsOf(Head(var_order), neighbor_orders[Head(var_order)])
            \o InitialQueue(Tail(var_order), neighbor_orders)

\* a revision after which no arc is appended
RequeueNothing(x, y, neighbor_order) == <<>>

\* the arcs appended after a revision of x against y
Requeue(x, y, neighbor_order) ==
    [k \in 1..Len(neighbor_order) |-> <<neighbor_order[k], x>>]

\* lines 159-167: build the queue
ac3_init ==
    /\ pc = "ac3"
    /\ \E var_order \in Orderings(crossword.variables) :
       \E neighbor_orders \in
              [crossword.variables -> UNION {Orderings(Neighbors(v)) :
                                                v \in crossword.variables}] :
          /\ \A v \in crossword.variables :
                neighbor_orders[v] \in Orderings(Neighbors(v))
          /\ queue' = InitialQueue(var_order, neighbor_orders)
    /\ pc' = "ac3_loop"
    /\ UNCHANGED <<crossword, domains, ac3_result, assignment, stack, result>>
    /\ UNCHANGED <<call, game_vars, rank_vars>>

\* lines 170-181: one iteration of the while loop
ac3_step ==
    /\ pc = "ac3_loop"
    /\ queue # <<>>
    /\ LET x == Head(queue)[1]
           y == Head(queue)[2]
           r == revise(domains, x, y)
       IN  /\ domains' = r.domains
           /\ IF r.revised
              THEN IF Cardinality(r.domains[x]) = 0
                   THEN /\ ac3_result' = "False"
                        /\ queue' = Tail(queue)
                        /\ pc' = "backtrack"
                   ELSE /\ \E neighbor_order \in Orderings(Neighbors(x) \ {y}) :
                              queue' = Tail(queue) \o Requeue(x, y, neighbor_order)
                        /\ UNCHANGED <<ac3_result, pc>>
              ELSE /\ queue' = Tail(queue)
                   /\ UNCHANGED <<ac3_result, pc>>
    /\ UNCHANGED <<crossword, assignment, stack, result>>
    /\ UNCHANGED <<call, game_vars, rank_vars>>

\* line 182: the queue is empty, return True
ac3_done ==
    /\ pc = "ac3_loop"
    /\ queue = <<>>
    /\ ac3_result' = "True"
    /\ pc' = "backtrack"
    /\ UNCHANGED <<crossword, domains, queue, assignment, stack, result>>
    /\ UNCHANGED <<call, game_vars, rank_vars>>

(***************************************************************************)
(* The assignment dict                                                     *)
(***************************************************************************)
\* dict()
EmptyAssignment == <<>>

\* assignment[var] = value
Put(a, var, value) ==
    [v \in DOMAIN a \cup {var} |-> IF v = var THEN value ELSE a[v]]

\* assignment.pop(var, None)
Pop(a, var) == [v \in DOMAIN a \ {var} |-> a[v]]

(***************************************************************************)
(* assignment_complete, consistent                                         *)
(***************************************************************************)
\* a loop over the keys of the assignment instead of the variables
assignment_complete_keys(a) ==
    \A var \in DOMAIN a : var \in DOMAIN a /\ a[var] # <<>>

assignment_complete(a) ==
    \A var \in crossword.variables : var \in DOMAIN a /\ a[var] # <<>>

\* consistent without the check for distinct values
consistent_duplicates(a) ==
    \A var \in DOMAIN a :
       /\ Len(a[var]) = var.length
       /\ \A neighbor \in Neighbors(var) :
             LET overlaps == crossword.overlaps[<<var, neighbor>>]
             IN  neighbor \in DOMAIN a =>
                    a[var][overlaps[1] + 1] = a[neighbor][overlaps[2] + 1]

consistent(a) ==
    /\ Cardinality(DOMAIN a) = Cardinality({a[var] : var \in DOMAIN a})
    /\ \A var \in DOMAIN a :
          /\ Len(a[var]) = var.length
          /\ \A neighbor \in Neighbors(var) :
                LET overlaps == crossword.overlaps[<<var, neighbor>>]
                IN  neighbor \in DOMAIN a =>
                       a[var][overlaps[1] + 1] = a[neighbor][overlaps[2] + 1]

(***************************************************************************)
(* order_domain_values                                                     *)
(***************************************************************************)
\* a counter that also counts the words of the assigned neighbors
EliminatedAllNeighbors(doms, var, a, word) ==
    Cardinality({p \in {q \in Neighbors(var) \X crossword.words :
                          q[2] \in doms[q[1]]} :
                    LET overlaps == crossword.overlaps[<<var, p[1]>>]
                    IN  word[overlaps[1] + 1] # p[2][overlaps[2] + 1]})

\* the counter `eliminated` of one word of the domain of var
Eliminated(doms, var, a, word) ==
    Cardinality({p \in {q \in (Neighbors(var) \ DOMAIN a) \X crossword.words :
                          q[2] \in doms[q[1]]} :
                    LET overlaps == crossword.overlaps[<<var, p[1]>>]
                    IN  word[overlaps[1] + 1] # p[2][overlaps[2] + 1]})

\* put a pair into a list sorted by count, behind the pairs of the same count
InsertStable(sorted, pair) ==
    LET before == SelectSeq(sorted, LAMBDA e : e[2] <= pair[2])
        after == SelectSeq(sorted, LAMBDA e : e[2] > pair[2])
    IN  before \o <<pair>> \o after

RECURSIVE SortStable(_, _)
\* list.sort(key=...) is stable: equal counts keep the order of the list
SortStable(sorted, rest) ==
    IF rest = <<>>
    THEN sorted
    ELSE SortStable(InsertStable(sorted, Head(rest)), Tail(rest))

\* an order_domain_values whose counting pass removes, from the domains of
\* the unassigned neighbors, the words the first value of the list rules out
order_domain_values_pruning(doms, var, a, word_order) ==
    LET eliminations == [k \in 1..Len(word_order) |->
                            <<word_order[k], Eliminated(doms, var, a, word_order[k])>>]
        ordered == SortStable(<<>>, eliminations)
    IN  [values |-> [k \in 1..Len(ordered) |-> ordered[k][1]],
         domains |->
            [v \in DOMAIN doms |->
                IF ordered # <<>> /\ v \in Neighbors(var) \ DOMAIN a
                THEN {w \in doms[v] :
                        ordered[1][1][crossword.overlaps[<<var, v>>][1] + 1]
                           = w[crossword.overlaps[<<var, v>>][2] + 1]}
                ELSE doms[v]]]

\* order_domain_values(var, assignment), the domain of var being iterated in
\* word_order: the list it returns and the domain store it leaves
order_domain_values(doms, var, a, word_order) ==
    LET eliminations == [k \in 1..Len(word_order) |->
                            <<word_order[k], Eliminated(doms, var, a, word_order[k])>>]
        ordered == SortStable(<<>>, eliminations)
    IN  [values |-> [k \in 1..Len(ordered) |-> ordered[k][1]],
         domains |-> doms]

(***************************************************************************)
(* select_unassigned_variable                                              *)
(***************************************************************************)
\* None, as a variable
NoVar == [i |-> -1, j |-> -1, direction |-> "none", length |-> 0]

\* a loop body that keeps the first variable of the smallest domain size
SelectStepFirstOfTies(doms, a, min_var, var) ==
    IF var \in DOMAIN a
    THEN min_var
    ELSE IF min_var = NoVar \/ Cardinality(doms[var]) < Cardinality(doms[min_var])
         THEN var
         ELSE min_var

\* the body of the loop for one variable; min is math.inf as long as
\* min_var is None
SelectStep(doms, a, min_var, var) ==
    IF var \in DOMAIN a
    THEN min_var
    ELSE IF min_var = NoVar \/ Cardinality(doms[var]) < Cardinality(doms[min_var])
         THEN var
         ELSE IF /\ Cardinality(doms[var]) = Cardinality(doms[min_var])
                 /\ Cardinality(Neighbors(var)) > Cardinality(Neighbors(min_var))
              THEN var
              ELSE min_var

RECURSIVE SelectLoop(_, _, _, _)
SelectLoop(doms, a, min_var, var_order) ==
    IF var_order = <<>>
    THEN min_var
    ELSE SelectLoop(doms, a, SelectStep(doms, a, min_var, Head(var_order)),
                    Tail(var_order))

\* select_unassigned_variable(assignment), the variables being iterated in
\* var_order
select_unassigned_variable(doms, a, var_order) ==
    SelectLoop(doms, a, NoVar, var_order)

(***************************************************************************)
(* backtrack                                                               *)
(***************************************************************************)
\* a call of backtrack inside its for loop: its variable, the values still
\* to try, and the assignment the call was entered with
Frame(var, values, entry) == [var |-> var, values |-> values, entry |-> entry]

\* lines 291-298: a call of backtrack(assignment) up to its for loop
backtrack_call ==
    /\ pc = "backtrack"
    /\ IF assignment_complete(assignment)
       THEN \* line 292, and line 305 in every caller
            /\ result' = [kind |-> "assignment", value |-> assignment]
            /\ pc' = "done"
            /\ stack' = <<>>
            /\ UNCHANGED domains
       ELSE \E var \in {select_unassigned_variable(domains, assignment, var_order) :
                            var_order \in Orderings(crossword.variables)} :
               IF var = NoVar
               THEN \* self.domains[None] raises KeyError
                    /\ result' = [kind |-> "error", value |-> EmptyAssignment]
                    /\ pc' = "done"
                    /\ UNCHANGED <<stack, domains>>
               ELSE \E o \in {order_domain_values(domains, var, assignment, word_order) :
                                word_order \in Orderings(domains[var])} :
                       /\ stack' = <<Frame(var, o.values, assignment)>> \o stack
                       /\ domains' = o.domains
                       /\ pc' = "loop"
                       /\ UNCHANGED result
    /\ UNCHANGED <<crossword, queue, ac3_result, assignment>>
    /\ UNCHANGED <<call, game_vars, rank_vars>>

\* lines 298-301: the next value of the for loop
backtrack_try ==
    /\ pc = "loop"
    /\ Head(stack).values # <<>>
    /\ LET frame == Head(stack)
           value == Head(frame.values)
       IN  /\ assignment' = Put(assignment, frame.var, value)
           /\ stack' = <<Frame(frame.var, Tail(frame.values), frame.entry)>>
                          \o Tail(stack)
           /\ pc' = IF consistent(assignment') THEN "backtrack" ELSE "loop"
    /\ UNCHANGED <<crossword, domains, queue, ac3_result, result>>
    /\ UNCHANGED <<call, game_vars, rank_vars>>

\* line 310: the for loop is over
backtrack_exhausted ==
    /\ pc = "loop"
    /\ Head(stack).values = <<>>
    /\ pc' = "return_none"
    /\ UNCHANGED <<crossword, domains, queue, ac3_result, assignment, stack, result>>
    /\ UNCHANGED <<call, game_vars, rank_vars>>

\* the call returns None: to solve(), or to line 304 of its caller, which
\* pops its own variable (line 307) and goes on with its loop
backtrack_return_none ==
    /\ pc = "return_none"
    /\ stack' = Tail(stack)
    /\ IF Tail(stack) = <<>>
       THEN /\ result' = [kind |-> "None", value |-> EmptyAssignment]
            /\ pc' = "done"
            /\ UNCHANGED assignment
       ELSE /\ assignment' = Pop(assignment, Head(Tail(stack)).var)
            /\ pc' = "loop"
            /\ UNCHANGED result
    /\ UNCHANGED <<crossword, domains, queue, ac3_result>>
    /\ UNCHANGED <<call, game_vars, rank_vars>>

Next ==
    \/ enforce_node_consistency
    \/ ac3_init
    \/ ac3_step
    \/ ac3_done
    \/ backtrack_call
    \/ backtrack_try
    \/ backtrack_exhausted
    \/ backtrack_return_none

Spec == Init /\ [][Next]_vars

\* solve() up to the return of ac3; the program runs on until ac3 returns
NextPropagation ==
    \/ enforce_node_consistency
    \/ ac3_init
    \/ ac3_step
    \/ ac3_done

PropagationSpec == InitPropagation /\ [][NextPropagation]_vars

(***************************************************************************)
(* Properties                                                              *)
(***************************************************************************)
\* a complete assignment that satisfies length match, pairwise distinctness
\* and overlap agreement for the whole slot set
ValidSolution(a) ==
    /\ DOMAIN a = crossword.variables
    /\ \A x \in crossword.variables : Len(a[x]) = x.length
    /\ \A x, y \in crossword.variables : x # y => a[x] # a[y]
    /\ \A x, y \in crossword.variables :
          (x # y /\ crossword.overlaps[<<x, y>>] # NoOverlap) =>
             a[x][crossword.overlaps[<<x, y>>][1] + 1]
                = a[y][crossword.overlaps[<<x, y>>][2] + 1]

\* the valid complete assignments over the word list
Solutions == {a \in [crossword.variables -> crossword.words] : ValidSolution(a)}

\* C1: solve() returns None or a complete assignment in which every word
\* has the length of its slot, the words are pairwise distinct and
\* overlapping slots agree on the shared cell; never a partial or
\* inconsistent assignment.
SolveReturnsNoneOrValid ==
    pc = "done" =>
       \/ result.kind = "None"
       \/ result.kind = "assignment" /\ ValidSolution(result.value)

\* solve() has returned an assignment of three slots
SolveReturnedAssignment ==
    /\ pc = "done"
    /\ result.kind = "assignment"
    /\ Cardinality(crossword.variables) = 3

\* C2: if ac3 does not report failure and a valid complete assignment
\* exists, backtrack on the empty assignment returns an assignment.
SearchComplete ==
    (pc = "done" /\ ac3_result = "True" /\ Solutions # {}) =>
        result.kind = "assignment"

\* C3: when a call of backtrack returns None, the assignment holds exactly
\* the entries it held when the call began.
FailedCallRestoresAssignment ==
    pc = "return_none" => assignment = Head(stack).entry

\* a failed call returns from below the first level of the search
FailedCallReturns == pc = "return_none" /\ Len(stack) >= 2

\* every word of every domain finds an agreeing word in each neighbor
ArcConsistent ==
    \A x \in crossword.variables : \A y \in Neighbors(x) :
       \A wx \in domains[x] : \E wy \in domains[y] :
          wx[crossword.overlaps[<<x, y>>][1] + 1]
             = wy[crossword.overlaps[<<x, y>>][2] + 1]

\* some domain lost a word of the right length, and no domain is empty
PrunedNotEmptied ==
    /\ \E x \in crossword.variables :
          domains[x] # {w \in crossword.words : Len(w) = x.length}
    /\ \A x \in crossword.variables : domains[x] # {}

\* C4: after ac3() with the default worklist returns True, every word of
\* domain(x) has a word of domain(y) that agrees with it at the overlap,
\* for every ordered pair of neighboring slots (x, y).
Ac3Sound == ac3_result = "True" => ArcConsistent

\* ac3 returned True after it removed words, on a structure with neighbors
Ac3ReturnedTrueAfterPruning ==
    /\ ac3_result = "True"
    /\ PrunedNotEmptied
    /\ \E x \in crossword.variables : Cardinality(domains[x]) >= 2

\* C5: the word a valid complete assignment gives to a slot stays in the
\* domain of the slot through node consistency and every step of ac3: no
\* assignment over the word list that gives a slot a word missing from its
\* domain is a valid complete assignment.
PropagationKeepsSolutions ==
    \A x \in crossword.variables : \A w \in crossword.words \ domains[x] :
       \A others \in [crossword.variables \ {x} -> crossword.words] :
          ~ValidSolution(Put(others, x, w))

\* propagation ended with a solution left and with words removed by ac3
SolutionSurvivedPruning ==
    /\ pc = "backtrack"
    /\ Solutions # {}
    /\ PrunedNotEmptied

\* a step of enforce_node_consistency keeps the words of the right length,
\* and only them
NodeConsistencyStep ==
    pc = "node" =>
       \A s \in crossword.variables :
          /\ \A w \in domains'[s] : w \in domains[s] /\ Len(w) = s.length
          /\ \A w \in domains[s] : Len(w) = s.length => w \in domains'[s]

\* C6: enforce_node_consistency leaves in the domain of every slot exactly
\* the words of the previous domain whose length is the length of the slot.
NodeConsistencyExact == [][NodeConsistencyStep]_vars

\* node consistency has run: a slot lost words and kept words
NodeConsistencyFiltered ==
    /\ pc = "ac3"
    /\ \E s \in crossword.variables :
          domains[s] # {} /\ domains[s] # crossword.words

\* C7: the backtracking search leaves every domain as it was after the
\* node-consistency and arc-consistency preprocessing.
SearchKeepsDomains ==
    [][(pc \in {"backtrack", "loop", "return_none"}) => (domains' = domains)]_vars

\* the search has returned None from a nested call, after trying values
SearchBacktracked ==
    /\ pc = "loop"
    /\ Len(stack) >= 2
    /\ DOMAIN assignment # {}
    /\ \A x \in crossword.variables : domains[x] # {}

\* C8: ac3 returns False exactly when some domain is empty as it returns.
Ac3ReturnMatchesEmptiness ==
    ac3_result # "none" =>
       (ac3_result = "False" <=> \E x \in crossword.variables : domains[x] = {})

\* C9: when a domain is empty after preprocessing, or ac3 returned False,
\* solve() returns None: no error, no assignment.
UnsolvableReportedAsNone ==
    (/\ pc = "done"
     /\ \/ ac3_result = "False"
        \/ \E x \in crossword.variables : domains[x] = {}) =>
        result.kind = "None"

\* solve() returned None after ac3 failed on a structure of three slots
ReturnedNoneAfterAc3Failed ==
    /\ pc = "done"
    /\ ac3_result = "False"
    /\ result.kind = "None"
    /\ Cardinality(crossword.variables) = 3

RECURSIVE TotalDomainSize(_)
\* the number of words in the domains of a set of variables
TotalDomainSize(variables) ==
    IF variables = {}
    THEN 0
    ELSE LET x == CHOOSE v \in variables : TRUE
         IN  Cardinality(domains[x]) + TotalDomainSize(variables \ {x})

\* a measure of the work ac3 has left: a removed word weighs more than the
\* arcs one revision can append
Ac3Variant ==
    Cardinality(crossword.variables) * TotalDomainSize(crossword.variables)
        + Len(queue)

\* an iteration of the worklist loop appends arcs only when it has removed
\* a word, so it always lowers the measure
Ac3IterationProgresses ==
    (pc = "ac3_loop" /\ queue # <<>>) =>
        /\ Ac3Variant' < Ac3Variant
        /\ Len(queue') >= Len(queue) =>
               \E x \in crossword.variables : domains'[x] # domains[x]
        /\ \A x \in crossword.variables : domains'[x] \subseteq domains[x]

\* C10: the worklist loop of ac3 terminates: every iteration lowers a
\* natural-number measure, an arc being re-enqueued only after a revision
\* that strictly shrinks a domain.
Ac3Terminates == [][Ac3IterationProgresses]_vars

\* ac3 ended on the cycle of four slots after it re-enqueued arcs
Ac3EndedOnCycle ==
    /\ pc = "backtrack"
    /\ Cardinality(crossword.variables) = 4
    /\ PrunedNotEmptied


\* the slots that are not in an assignment
Unassigned(a) == crossword.variables \ DOMAIN a

\* a call of backtrack has just selected its variable and ordered its values
JustCalled ==
    /\ pc = "loop"
    /\ stack # <<>>
    /\ Head(stack).entry = assignment
    /\ Len(Head(stack).values) = Cardinality(domains[Head(stack).var])

\* what the call of select_unassigned_variable made by a step returned
SelectionStep ==
    (pc = "backtrack" /\ pc' = "loop") =>
       LET var == Head(stack').var
       IN  /\ var \in Unassigned(assignment)
           /\ \A v \in Unassigned(assignment) :
                 /\ Cardinality(domains[var]) <= Cardinality(domains[v])
                 /\ Cardinality(domains[v]) = Cardinality(domains[var])
                       => Cardinality(Neighbors(v)) <= Cardinality(Neighbors(var))

\* C14: for an incomplete assignment select_unassigned_variable returns a
\* slot that is not in the assignment, of the minimum domain size over the
\* unassigned slots and, among those, of the maximum number of neighbors,
\* whatever the order in which the slots are iterated
SelectsMinDomainMaxDegree == [][SelectionStep]_vars

\* the selected slot won a tie of domain size by its number of neighbors
SelectedByDegree ==
    /\ JustCalled
    /\ \E v \in Unassigned(assignment) :
          /\ Cardinality(domains[v]) = Cardinality(domains[Head(stack).var])
          /\ Cardinality(Neighbors(v)) < Cardinality(Neighbors(Head(stack).var))

RECURSIVE SumOver(_, _)
\* the sum of count[n] over a set of slots
SumOver(count, slots) ==
    IF slots = {}
    THEN 0
    ELSE LET n == CHOOSE n \in slots : TRUE
         IN  count[n] + SumOver(count, slots \ {n})

\* the elimination count of a word of var: the words of the unassigned
\* neighbors that differ from it at the shared overlap index
EliminationCount(var, a, word) ==
    SumOver([n \in Neighbors(var) \ DOMAIN a |->
                Cardinality({w \in domains[n] :
                                w[crossword.overlaps[<<var, n>>][2] + 1]
                                   # word[crossword.overlaps[<<var, n>>][1] + 1]})],
            Neighbors(var) \ DOMAIN a)

(***************************************************************************)
(* Tic-tac-toe: src/Search/tictactoe/abprunettt.py                         *)
(***************************************************************************)
X == "X"
O == "O"
None == "None"
EMPTY == None

\* math.inf: every utility lies strictly between -Inf and Inf
Inf == 2

\* the game is taken up with at most MaxEmpty empty cells
MaxEmpty == 5

Max2(a, b) == IF a >= b THEN a ELSE b
Min2(a, b) == IF a <= b THEN a ELSE b

\* a board is a list of three rows; an action (i, j) counts from 0
initial_state ==
    <<<<EMPTY, EMPTY, EMPTY>>, <<EMPTY, EMPTY, EMPTY>>, <<EMPTY, EMPTY, EMPTY>>>>

AllCells == (0..2) \X (0..2)

actions(b) == {a \in AllCells : b[a[1] + 1][a[2] + 1] = EMPTY}

\* line[1:] == line[:-1] and line[1] != EMPTY
LineWon(line) ==
    /\ <<line[2], line[3]>> = <<line[1], line[2]>>
    /\ line[2] # EMPTY

\* the rows, then columns_and_diagonals, in the order they are looked at
Lines(b) ==
    <<b[1], b[2], b[3],
      <<b[1][1], b[2][1], b[3][1]>>,
      <<b[1][2], b[2][2], b[3][2]>>,
      <<b[1][3], b[2][3], b[3][3]>>,
      <<b[1][1], b[2][2], b[3][3]>>,
      <<b[1][3], b[2][2], b[3][1]>>>>

RECURSIVE FirstWon(_, _)
\* the loops of winner over the lines from the k-th on
FirstWon(lines, k) ==
    IF k > Len(lines)
    THEN None
    ELSE IF LineWon(lines[k]) THEN lines[k][2] ELSE FirstWon(lines, k + 1)

winner(b) == FirstWon(Lines(b), 1)

terminal(b) ==
    IF winner(b) # None
    THEN TRUE
    ELSE \A a \in AllCells : b[a[1] + 1][a[2] + 1] # EMPTY

player(b) ==
    IF b = initial_state
    THEN X
    ELSE IF terminal(b)
         THEN None
         ELSE IF Cardinality(AllCells \ actions(b)) % 2 = 0 THEN X ELSE O

\* result(board, action) for an action of actions(board)
result_board(b, a) ==
    [b EXCEPT ![a[1] + 1][a[2] + 1] = player(b)]

utility(b) ==
    IF winner(b) = X
    THEN 1
    ELSE IF winner(b) = O THEN -1 ELSE 0

\* the orders in which a set of actions may be iterated: cell_order lists
\* all nine cells, and a set of actions is iterated as it lists them
RowMajor == <<<<0, 0>>, <<0, 1>>, <<0, 2>>, <<1, 0>>, <<1, 1>>, <<1, 2>>,
              <<2, 0>>, <<2, 1>>, <<2, 2>>>>
Reversed(seq) == [k \in 1..Len(seq) |-> seq[Len(seq) + 1 - k]]
CentreFirst == <<<<1, 1>>, <<0, 1>>, <<2, 1>>, <<1, 0>>, <<1, 2>>, <<0, 0>>,
                 <<2, 2>>, <<0, 2>>, <<2, 0>>>>
CellOrders == {RowMajor, Reversed(RowMajor), CentreFirst}

Iterate(b, cell_order) == SelectSeq(cell_order, LAMBDA a : a \in actions(b))

RECURSIVE max_value(_, _, _, _), min_value(_, _, _, _)
RECURSIVE MaxLoop(_, _, _, _, _, _), MinLoop(_, _, _, _, _, _)

\* a loop of min_value that tests its value against beta instead of alpha
MinLoopCutAtBeta(b, value, alpha, beta, todo, cell_order) ==
    IF todo = <<>>
    THEN value
    ELSE LET v == Min2(value, max_value(result_board(b, Head(todo)),
                                        alpha, beta, cell_order))
         IN  IF v <= beta
             THEN v
             ELSE MinLoop(b, v, alpha, Min2(v, beta), Tail(todo), cell_order)

\* lines 154-159: the for loop of max_value
MaxLoop(b, value, alpha, beta, todo, cell_order) ==
    IF todo = <<>>
    THEN value
    ELSE LET v == Max2(value, min_value(result_board(b, Head(todo)),
                                        alpha, beta, cell_order))
         IN  IF v >= beta
             THEN v
             ELSE MaxLoop(b, v, Max2(v, alpha), beta, Tail(todo), cell_order)

\* lines 169-174: the for loop of min_value
MinLoop(b, value, alpha, beta, todo, cell_order) ==
    IF todo = <<>>
    THEN value
    ELSE LET v == Min2(value, max_value(result_board(b, Head(todo)),
                                        alpha, beta, cell_order))
         IN  IF v <= alpha
             THEN v
             ELSE MinLoop(b, v, alpha, Min2(v, beta), Tail(todo), cell_order)

max_value(b, alpha, beta, cell_order) ==
    IF terminal(b)
    THEN utility(b)
    ELSE MaxLoop(b, -Inf, alpha, beta, Iterate(b, cell_order), cell_order)

min_value(b, alpha, beta, cell_order) ==
    IF terminal(b)
    THEN utility(b)
    ELSE MinLoop(b, Inf, alpha, beta, Iterate(b, cell_order), cell_order)

\* the list `moves` of minimax(board) for a board that is not terminal
minimax_moves(b, cell_order) ==
    IF player(b) = X
    THEN LET best_value == max_value(b, -Inf, Inf, cell_order)
         IN  SelectSeq(Iterate(b, cell_order),
                       LAMBDA a : min_value(result_board(b, a), -Inf, Inf, cell_order)
                                     = best_value)
    ELSE LET best_value == min_value(b, -Inf, Inf, cell_order)
         IN  SelectSeq(Iterate(b, cell_order),
                       LAMBDA a : max_value(result_board(b, a), -Inf, Inf, cell_order)
                                     = best_value)

\* the boards after k legal moves
RECURSIVE BoardsAfter(_)
BoardsAfter(k) ==
    IF k = 0
    THEN {initial_state}
    ELSE {result_board(b, a) : <<b, a>> \in
             {q \in BoardsAfter(k - 1) \X AllCells :
                 ~terminal(q[1]) /\ q[2] \in actions(q[1])}}

Pending == [kind |-> "pending", value |-> <<>>]

InitGame ==
    /\ board \in BoardsAfter(9 - MaxEmpty)
    /\ move = Pending
    /\ crossword = <<>>
    /\ domains = <<>>
    /\ pc = "game"
    /\ queue = <<>>
    /\ ac3_result = "none"
    /\ assignment = <<>>
    /\ stack = <<>>
    /\ result = Pending
    /\ call = NoCall
    /\ RankIdle

\* minimax(board): None, or random.choice(moves), which raises IndexError
\* on an empty list
minimax ==
    /\ pc = "game"
    /\ move = Pending
    /\ IF terminal(board)
       THEN move' = [kind |-> "None", value |-> <<>>]
       ELSE \E moves \in {minimax_moves(board, cell_order) : cell_order \in CellOrders} :
               IF moves = <<>>
               THEN move' = [kind |-> "error", value |-> <<>>]
               ELSE \E k \in 1..Len(moves) :
                       move' = [kind |-> "action", value |-> moves[k]]
    /\ UNCHANGED <<board, solver_vars, call, rank_vars>>

\* a legal move is made, the one minimax returned or any other
play ==
    /\ pc = "game"
    /\ ~terminal(board)
    /\ \E a \in actions(board) : board' = result_board(board, a)
    /\ move' = Pending
    /\ UNCHANGED <<solver_vars, call, rank_vars>>

NextGame ==
    \/ minimax
    \/ play

GameSpec == InitGame /\ [][NextGame]_vars

\* the value a player prefers among a set of values
BestFor(p, values) ==
    IF p = X
    THEN CHOOSE v \in values : \A w \in values : v >= w
    ELSE CHOOSE v \in values : \A w \in values : v <= w

\* player p holds a full row, column or diagonal
ThreeInARow(b, p) ==
    \/ \E i \in 1..3 : b[i][1] = p /\ b[i][2] = p /\ b[i][3] = p
    \/ \E j \in 1..3 : b[1][j] = p /\ b[2][j] = p /\ b[3][j] = p
    \/ b[1][1] = p /\ b[2][2] = p /\ b[3][3] = p
    \/ b[1][3] = p /\ b[2][2] = p /\ b[3][1] = p

FreeCells(b) == {a \in AllCells : b[a[1] + 1][a[2] + 1] = EMPTY}

GameOver(b) == ThreeInARow(b, X) \/ ThreeInARow(b, O) \/ FreeCells(b) = {}

\* X moves first and the players alternate
ToMove(b) == IF Cardinality(FreeCells(b)) % 2 = 1 THEN X ELSE O

Opponent(p) == IF p = X THEN O ELSE X

RECURSIVE GameValue(_, _)
\* the value of a board with p to move, by minimax without pruning: 1 if X
\* has won, -1 if O has won, 0 for a draw, and otherwise the best value for
\* p of the boards p can move to
GameValue(b, p) ==
    IF ThreeInARow(b, X)
    THEN 1
    ELSE IF ThreeInARow(b, O)
         THEN -1
         ELSE IF FreeCells(b) = {}
              THEN 0
              ELSE BestFor(p, {GameValue([b EXCEPT ![a[1] + 1][a[2] + 1] = p],
                                         Opponent(p)) : a \in FreeCells(b)})

\* C11: on every board reachable by legal moves, minimax returns None if
\* the board is terminal, and otherwise an action of actions(board) whose
\* resulting board has the best game value the player to move can achieve
MinimaxOptimal ==
    move # Pending =>
       IF GameOver(board)
       THEN move.kind = "None"
       ELSE /\ move.kind = "action"
            /\ move.value \in FreeCells(board)
            /\ LET p == ToMove(board)
                   a == move.value
               IN  GameValue([board EXCEPT ![a[1] + 1][a[2] + 1] = p], Opponent(p))
                      = GameValue(board, p)

\* minimax returned an action on a board where another action is worse
MinimaxChoseAmongUnequal ==
    /\ move # Pending
    /\ move.kind = "action"
    /\ LET p == ToMove(board)
       IN  \E a \in FreeCells(board) :
              GameValue([board EXCEPT ![a[1] + 1][a[2] + 1] = p], Opponent(p))
                 # GameValue(board, p)


(***************************************************************************)
(* PageRank: src/Uncertainty/pagerank/pagerank.py                          *)
(***************************************************************************)
\* a corpus has at most MaxPages pages, named 1..n
MaxPages == 3

\* exact fractions <<numerator, denominator>>, the denominator positive
Frac(n, d) == <<n, d>>
FracOfInt(n) == <<n, 1>>
FracAdd(a, b) == <<a[1] * b[2] + b[1] * a[2], a[2] * b[2]>>
FracSub(a, b) == <<a[1] * b[2] - b[1] * a[2], a[2] * b[2]>>
\* a / k for a positive integer k
FracDivInt(a, k) == <<a[1], a[2] * k>>
FracEq(a, b) == a[1] * b[2] = b[1] * a[2]
FracLeq(a, b) == a[1] * b[2] <= b[1] * a[2]

\* DAMPING = 0.85
DAMPING == Frac(17, 20)

\* the damping factors transition_model is called with
DampingFactors == {DAMPING, Frac(1, 2)}

\* the corpora crawl() builds: every page maps to a set of other pages of
\* the corpus
Corpora ==
    UNION {{c \in [1..n -> SUBSET (1..n)] : \A q \in 1..n : q \notin c[q]} :
              n \in 1..MaxPages}

\* transition_model has not returned
NoModel == <<>>

\* transition_model(corpus, page, damping_factor): the dict it returns
transition_model(c, q, d) ==
    LET N == Cardinality(DOMAIN c)
        corpus_probability == FracDivInt(FracSub(FracOfInt(1), d), N)
    IN  IF Cardinality(c[q]) = 0
        THEN [link \in DOMAIN c |-> FracDivInt(FracOfInt(1), N)]
        ELSE LET link_probability == FracDivInt(d, Cardinality(c[q]))
             IN  [link \in {q} \cup c[q] |->
                     IF link \in c[q]
                     THEN FracAdd(link_probability, corpus_probability)
                     ELSE corpus_probability]

InitRank ==
    /\ corpus \in Corpora
    /\ page \in DOMAIN corpus
    /\ damping_factor \in DampingFactors
    /\ model = NoModel
    /\ crossword = <<>>
    /\ domains = <<>>
    /\ pc = "rank"
    /\ queue = <<>>
    /\ ac3_result = "none"
    /\ assignment = <<>>
    /\ stack = <<>>
    /\ result = Pending
    /\ call = NoCall
    /\ GameIdle

transition_model_call ==
    /\ pc = "rank"
    /\ model = NoModel
    /\ model' = transition_model(corpus, page, damping_factor)
    /\ UNCHANGED <<corpus, page, damping_factor, solver_vars, call, game_vars>>

\* the sampler goes on from a page of the model
next_sample ==
    /\ pc = "rank"
    /\ model # NoModel
    /\ page' \in DOMAIN model
    /\ model' = NoModel
    /\ UNCHANGED <<corpus, damping_factor, solver_vars, call, game_vars>>

NextRank ==
    \/ transition_model_call
    \/ next_sample

RankSpec == InitRank /\ [][NextRank]_vars

RECURSIVE FracSum(_, _)
\* the sum of the values a mapping has on a set of keys
FracSum(f, keys) ==
    IF keys = {}
    THEN FracOfInt(0)
    ELSE LET k == CHOOSE k \in keys : TRUE
         IN  FracAdd(f[k], FracSum(f, keys \ {k}))

\* C12: the mapping transition_model returns has an entry for every page of
\* the corpus, each at least (1 - damping_factor)/N if the page has links,
\* and its values sum to 1
TransitionModelIsDistribution ==
    model # NoModel =>
       /\ DOMAIN model = DOMAIN corpus
       /\ corpus[page] # {} =>
             \A q \in DOMAIN model :
                FracLeq(FracDivInt(FracSub(FracOfInt(1), damping_factor),
                                   Cardinality(DOMAIN corpus)),
                        model[q])
       /\ FracEq(FracSum(model, DOMAIN model), FracOfInt(1))


(***************************************************************************)
(* revise, called on any two different variables after node consistency,   *)
(* as ac3 does for each arc of the worklist it is given                    *)
(***************************************************************************)
InitRevise ==
    \/ Construct(Structures, WordLists)
    \/ Construct({Stair}, ChainWordLists)

\* revise(x, y): the store it leaves, and the call with what it returned
revise_direct ==
    /\ pc = "ac3"
    /\ \E x \in crossword.variables, y \in crossword.variables :
          /\ x # y
          /\ LET r == revise(domains, x, y)
             IN  /\ domains' = r.domains
                 /\ call' = [x |-> x, y |-> y, revised |-> r.revised]
    /\ UNCHANGED <<crossword, pc, queue, ac3_result, assignment, stack, result>>
    /\ UNCHANGED <<game_vars, rank_vars>>

NextRevise ==
    \/ enforce_node_consistency
    \/ revise_direct

ReviseSpec == InitRevise /\ [][NextRevise]_vars

\* the words of domain(x) that agree with some word of domain(y) at the
\* overlap indices (i, j)
Supported(x, y) ==
    LET i == crossword.overlaps[<<x, y>>][1]
        j == crossword.overlaps[<<x, y>>][2]
    IN  {w \in domains[x] : \E w2 \in domains[y] : w[i + 1] = w2[j + 1]}

\* what a call revise(x, y) does, the call being the one recorded by the step
ReviseStep ==
    (pc = "ac3" /\ pc' = "ac3") =>
       LET x == call'.x
           y == call'.y
       IN  /\ \A z \in crossword.variables \ {x} : domains'[z] = domains[z]
           /\ IF crossword.overlaps[<<x, y>>] = NoOverlap
              THEN domains'[x] = domains[x] /\ ~call'.revised
              ELSE /\ domains'[x] = Supported(x, y)
                   /\ call'.revised <=> domains'[x] # domains[x]

\* C13: revise(x, y) changes nothing and returns False if no overlap is
\* registered for (x, y); otherwise it removes from domain(x) exactly the
\* words that no word of domain(y) agrees with at the overlap indices,
\* returns True iff a word was removed, and leaves the other domains alone
ReviseExact == [][ReviseStep]_vars

\* a call of revise removed a word from domain(x) and kept another
ReviseRemovedSome ==
    /\ call # NoCall
    /\ call.revised
    /\ domains[call.x] # {}


(***************************************************************************)
(* order_domain_values, called after node consistency for any slot and any *)
(* assignment of other slots                                               *)
(***************************************************************************)
\* the assignments that give words of their domains to some of the slots
AssignmentsOf(slots) ==
    UNION {{a \in [assigned -> crossword.words] :
               \A v \in assigned : a[v] \in domains[v]} : assigned \in SUBSET slots}

\* order_domain_values(var, assignment): the call with the list it returned
order_direct ==
    /\ pc = "ac3"
    /\ call = NoCall
    /\ \E var \in crossword.variables :
       \E a \in AssignmentsOf(crossword.variables \ {var}) :
       \E o \in {order_domain_values(domains, var, a, word_order) :
                    word_order \in Orderings(domains[var])} :
          /\ domains' = o.domains
          /\ call' = [var |-> var, assignment |-> a, values |-> o.values]
    /\ UNCHANGED <<crossword, pc, queue, ac3_result, assignment, stack, result>>
    /\ UNCHANGED <<game_vars, rank_vars>>

NextOrder ==
    \/ enforce_node_consistency
    \/ order_direct

OrderSpec == Init /\ [][NextOrder]_vars

\* what a call order_domain_values(var, assignment) returned, the call
\* being the one recorded by the step
OrderingStep ==
    (pc = "ac3" /\ pc' = "ac3") =>
       LET var == call'.var
           a == call'.assignment
           values == call'.values
       IN  /\ Len(values) = Cardinality(domains[var])
           /\ {values[k] : k \in 1..Len(values)} = domains[var]
           /\ \A k \in 1..Len(values), l \in 1..Len(values) :
                 k < l => EliminationCount(var, a, values[k])
                             <= EliminationCount(var, a, values[l])

\* C15: order_domain_values returns every word of domain(var) exactly once,
\* in ascending order of its elimination count, to which the neighbors in
\* the assignment contribute nothing
OrdersByEliminationCount == [][OrderingStep]_vars

\* the list returned for a slot with a neighbor in the assignment and a
\* neighbor outside it rises in elimination count
OrderedUnequalCounts ==
    /\ pc = "ac3"
    /\ call # NoCall
    /\ Neighbors(call.var) \cap DOMAIN call.assignment # {}
    /\ \E k \in 1..Len(call.values), l \in 1..Len(call.values) :
          EliminationCount(call.var, call.assignment, call.values[k])
             < EliminationCount(call.var, call.assignment, call.values[l])

=============================================================================
